---------------------------- MODULE Spec2Model ----------------------------
(***************************************************************************)
(* MetroBuilder: the placement controller, the collision test, the         *)
(* population/jobs recompute and the simulation tick (clock, weather, RCI  *)
(* demand), as a state machine over the React state of App and the ghost   *)
(* preview object of GameCanvas; the render loop (animate) over the        *)
(* three.js scene; and the synthesis of forms (createProceduralBuilding).  *)
(*                                                                         *)
(* Numbers.  World coordinates are integers (pointer points are drawn from *)
(* integer points; snapping yields multiples of TILE_SIZE).  The clock is  *)
(* kept in thousandths of an hour.  RCI values are exact rationals kept as *)
(* integers scaled by RciScale; random draws are integers in 0..99999      *)
(* standing for draw/100000.  IEEE rounding is not modelled.               *)
(*                                                                         *)
(* React.  A handler runs against the state of the latest render, and the  *)
(* effects that a handler's state updates trigger (the stats effect on     *)
(* [buildings], the ghost refresh effect on [currentVariant, updateGhost]) *)
(* are part of the handler's action.                                       *)
(***************************************************************************)
EXTENDS Integers, Sequences, FiniteSets, TLC

(***************************************************************************)
(* Bounds of the model (not program constants).                            *)
(***************************************************************************)
MaxTicks == 1          \* timer callbacks explored under Spec and SpecSpend
MaxRciTicks == 3       \* timer callbacks explored under SpecRci
MaxCommits == 2        \* successful placements explored under Spec and SpecStyle
MaxSpendCommits == 8   \* successful placements explored under SpecSpend
MaxRciCommits == 3     \* successful placements explored under SpecRci
NumIds == 2            \* size of the pool the random identifiers are drawn from
MaxSettleTicks == 14   \* timer callbacks explored under SpecSettle
MaxSettleCommits == 4  \* successful placements explored under SpecSettle
MaxFrames == 3         \* render frames explored under SpecFrame
MaxFrameTicks == 2     \* timer callbacks explored under SpecFrame
MaxVariant == 2        \* style variants 0..MaxVariant given to createProceduralBuilding
DrawPeriod == 3        \* length of the cycles of Math.random() draws explored under SpecForm
MaxClockTicks == 3000  \* timer callbacks explored under SpecClock

(***************************************************************************)
(* constants.ts                                                            *)
(***************************************************************************)
GRID_SIZE == 128
TILE_SIZE == 10
MAP_SIZE == GRID_SIZE * TILE_SIZE
INITIAL_FUNDS == 50000
INITIAL_POPULATION == 0

\* JavaScript null for the three string|null identifiers.
Null == "null"

\* createZone: the four sizes of one zoned category.  height is kept in
\* hundredths: baseHeight * (1 + size * 0.5) = baseHeight100 * (2 + size) / 2.
createZone(prefix, category, color, baseCost, baseHeight100) ==
    LET sizes == <<1, 2, 3, 4>>
    IN [i \in 1..Len(sizes) |->
          LET size == sizes[i]
          IN [id |-> prefix \o "_" \o ToString(size) \o "x" \o ToString(size),
              category |-> category,
              width |-> size,
              depth |-> size,
              height100 |-> (baseHeight100 * (2 + size)) \div 2,
              color |-> color,
              cost |-> baseCost * size * size]]

BUILDINGS ==
    << [id |-> "tool_dezone", category |-> "Tools", width |-> 1, depth |-> 1,
        height100 |-> 10, color |-> "#ff0000", cost |-> 0],
       [id |-> "road_local", category |-> "Road", width |-> 1, depth |-> 1,
        height100 |-> 10, color |-> "#374151", cost |-> 10] >>
    \o createZone("res", "Residential", "#4ade80", 50, 200)
    \o createZone("com", "Commercial", "#60a5fa", 100, 300)
    \o createZone("ind", "Industrial", "#facc15", 150, 300)
    \o createZone("off", "Office", "#c084fc", 200, 500)
    \o createZone("util_landfill", "Utility", "#854d0e", 500, 150)
    \o createZone("dec_park", "Parks", "#166534", 100, 50)

\* BUILDINGS.find(t => t.id === id): HasType is "the result is not undefined",
\* TypeOf is the first match.
HasType(id) == \E i \in DOMAIN BUILDINGS : BUILDINGS[i].id = id

TypeOf(id) ==
    LET hits == {i \in DOMAIN BUILDINGS : BUILDINGS[i].id = id}
    IN BUILDINGS[CHOOSE i \in hits : \A j \in hits : i <= j]

CatalogIds == {BUILDINGS[i].id : i \in DOMAIN BUILDINGS}

(***************************************************************************)
(* GameCanvas.checkCollision(x, z, w, d) against the structure list bs.    *)
(* Half extents are kept doubled (w * TILE_SIZE instead of w*TILE_SIZE/2)  *)
(* so that odd footprints stay integral: every comparison is the code's    *)
(* comparison multiplied by two.                                           *)
(***************************************************************************)
\* slip: the bounds test on the x axis alone
OutOfMapXOnly(x, z, w, d) ==
    \/ 2 * x - w * TILE_SIZE < -MAP_SIZE
    \/ 2 * x + w * TILE_SIZE > MAP_SIZE

\* slip: the bounds test against the lower edges alone
OutOfMapLowerOnly(x, z, w, d) ==
    \/ 2 * x - w * TILE_SIZE < -MAP_SIZE
    \/ 2 * z - d * TILE_SIZE < -MAP_SIZE

OutOfMap(x, z, w, d) ==
    LET halfMap2 == MAP_SIZE
        hw2 == w * TILE_SIZE
        hd2 == d * TILE_SIZE
    IN \/ 2 * x - hw2 < -halfMap2
       \/ 2 * x + hw2 > halfMap2
       \/ 2 * z - hd2 < -halfMap2
       \/ 2 * z + hd2 > halfMap2

\* slip: closed intervals (<= and >=), so that touching edges collide
RectsOverlapClosed(b, x, z, w, d) ==
    LET bType == TypeOf(b.typeId)
    IN /\ 2 * b.x - bType.width * TILE_SIZE <= 2 * x + w * TILE_SIZE
       /\ 2 * b.x + bType.width * TILE_SIZE >= 2 * x - w * TILE_SIZE
       /\ 2 * b.z - bType.depth * TILE_SIZE <= 2 * z + d * TILE_SIZE
       /\ 2 * b.z + bType.depth * TILE_SIZE >= 2 * z - d * TILE_SIZE

RectsOverlap(b, x, z, w, d) ==
    LET bType == TypeOf(b.typeId)
        r1x1 == 2 * b.x - bType.width * TILE_SIZE
        r1x2 == 2 * b.x + bType.width * TILE_SIZE
        r1z1 == 2 * b.z - bType.depth * TILE_SIZE
        r1z2 == 2 * b.z + bType.depth * TILE_SIZE
        r2x1 == 2 * x - w * TILE_SIZE
        r2x2 == 2 * x + w * TILE_SIZE
        r2z1 == 2 * z - d * TILE_SIZE
        r2z2 == 2 * z + d * TILE_SIZE
    IN r1x1 < r2x2 /\ r1x2 > r2x1 /\ r1z1 < r2z2 /\ r1z2 > r2z1

\* slip: the structures are never consulted
checkCollisionBoundsOnly(bs, x, z, w, d) == OutOfMap(x, z, w, d)

checkCollision(bs, x, z, w, d) ==
    \/ OutOfMap(x, z, w, d)
    \/ \E i \in DOMAIN bs :
          /\ HasType(bs[i].typeId)
          /\ RectsOverlap(bs[i], x, z, w, d)

(***************************************************************************)
(* App stats effect: population and jobs from the structure list.  The     *)
(* running sums are kept in tenths (1 + width*0.5 = (10 + width*5)/10) and *)
(* floored at the end, as the code floors the accumulated sum.             *)
(***************************************************************************)
PopContribution10(bType) ==
    IF bType.category = "Residential"
    THEN bType.width * bType.depth * 10 * (10 + bType.width * 5)
    ELSE 0

\* slip: the residential density factor 0.5 used for jobs
JobsContributionAsResidential(bType) ==
    IF bType.category \in {"Commercial", "Industrial", "Office"}
    THEN bType.width * bType.depth * 10 * (10 + bType.width * 5)
    ELSE 0

JobsContribution10(bType) ==
    IF bType.category \in {"Commercial", "Industrial", "Office"}
    THEN bType.width * bType.depth * 10 * (10 + bType.width * 2)
    ELSE 0

RECURSIVE SumPop10(_)
SumPop10(bs) ==
    IF bs = <<>> THEN 0
    ELSE (IF HasType(Head(bs).typeId)
          THEN PopContribution10(TypeOf(Head(bs).typeId)) ELSE 0)
         + SumPop10(Tail(bs))

RECURSIVE SumJobs10(_)
SumJobs10(bs) ==
    IF bs = <<>> THEN 0
    ELSE (IF HasType(Head(bs).typeId)
          THEN JobsContribution10(TypeOf(Head(bs).typeId)) ELSE 0)
         + SumJobs10(Tail(bs))

\* slip: the effect does not run
StatsEffectSkipped(gs, bs) == gs

StatsEffect(gs, bs) ==
    [gs EXCEPT !.population = SumPop10(bs) \div 10,
               !.jobs = SumJobs10(bs) \div 10]

(***************************************************************************)
(* App tick timer: clock, weather and RCI.                                 *)
(***************************************************************************)
MathMin(a, b) == IF a < b THEN a ELSE b
MathMax(a, b) == IF a > b THEN a ELSE b

RECURSIVE Pow(_, _)
Pow(b, n) == IF n = 0 THEN 1 ELSE b * Pow(b, n - 1)

\* Targets are multiples of 1/20 and each lerp divides by 20, so after k
\* ticks every RCI value is a multiple of 1/20^(k+1).
RciScale == Pow(20, MathMax(MaxTicks, MaxRciTicks) + 1)

\* slip: the clock held below 24 instead of wrapped
NewTimeClamped(t) == MathMin(t + 8, 23999)

\* (prev.time + 0.008) % 24, in thousandths of an hour
NewTime(t) == (t + 8) % 24000

\* slip: the roll compared with <= at 0.5 and 0.8
NewWeatherInclusive(weather, draw, roll) ==
    IF draw < 33
    THEN IF roll <= 50000 THEN "clear"
         ELSE IF roll <= 80000 THEN "rain"
         ELSE "fog"
    ELSE weather

\* draws are in 0..99999 and stand for draw/100000
\* Math.random() < 0.00033
Resamples(draw) == draw < 33

NewWeather(weather, draw, roll) ==
    IF Resamples(draw)
    THEN IF roll < 50000 THEN "clear"
         ELSE IF roll < 80000 THEN "rain"
         ELSE "fog"
    ELSE weather

\* slip: the residential target left unclamped
TargetResUnclamped(population, jobs) ==
    IF population > 0
    THEN 50 * RciScale + (jobs - population) * (RciScale \div 10)
    ELSE 100 * RciScale

\* 50 + (jobs - population) * 0.1, scaled by RciScale
TargetRes(population, jobs) ==
    IF population > 0
    THEN MathMin(100 * RciScale,
                 MathMax(0, 50 * RciScale + (jobs - population) * (RciScale \div 10)))
    ELSE 100 * RciScale

\* (population * 0.5 - jobs * 0.2) / 2, scaled by RciScale
TargetCom(population, jobs) ==
    MathMin(100 * RciScale,
            MathMax(0, (population * 5 - jobs * 2) * (RciScale \div 20)))

\* slip: the commercial coefficients used for the industrial target
TargetIndAsCom(population, jobs) ==
    MathMin(100 * RciScale,
            MathMax(0, (population * 5 - jobs * 2) * (RciScale \div 20)))

\* (population * 0.4 - jobs * 0.3) / 2, scaled by RciScale
TargetInd(population, jobs) ==
    MathMin(100 * RciScale,
            MathMax(0, (population * 4 - jobs * 3) * (RciScale \div 20)))

\* slip: the step overshoots, landing as far beyond the target as 0.05
\* would leave it short
lerpOvershoot(a, b) == a + ((b - a) * 39) \div 20

\* slip: the smoothing factor 0.1
lerpTenth(a, b) == a + (b - a) \div 10

\* a + (b - a) * 0.05.  The division by 20 is exact for the first
\* MaxRciTicks ticks, which is all that Spec, SpecSpend, SpecRci and
\* SpecStyle take; on later ticks (SpecSettle, SpecClock) the quotient is
\* rounded down to a multiple of 1/RciScale, where the code rounds to the
\* nearest double.
lerp(a, b) == a + (b - a) \div 20

\* slip: the timer's callback pays an income into the funds
TickStateIncome(prev, draw, roll) ==
    [prev EXCEPT
        !.time = NewTime(prev.time),
        !.weather = NewWeather(prev.weather, draw, roll),
        !.funds = prev.funds + 10]

TickState(prev, draw, roll) ==
    [prev EXCEPT
        !.time = NewTime(prev.time),
        !.weather = NewWeather(prev.weather, draw, roll),
        !.rci = [res |-> lerp(prev.rci.res, TargetRes(prev.population, prev.jobs)),
                 com |-> lerp(prev.rci.com, TargetCom(prev.population, prev.jobs)),
                 ind |-> lerp(prev.rci.ind, TargetInd(prev.population, prev.jobs))]]


(***************************************************************************)
(* State.  gameState, buildings, selectedBuildingId, inspectedBuildingId,  *)
(* isDemolishMode and currentVariant are App's useState cells; ghost is    *)
(* GameCanvas's ghostRef group (its visible flag, its position, its        *)
(* userData.typeId and the validity colour updateGhost paints it with).    *)
(* ticks and commits count timer callbacks and successful placements (they *)
(* bound the exploration); lastClick is the branch of handleClick the last *)
(* handled event took ("none" when the last event was not a click), and   *)
(* lastInput is what that event carried.                                   *)
(***************************************************************************)
(***************************************************************************)
(* GameCanvas.animate: one render frame.  It reads the clock and the       *)
(* weather from gameStateRef.current, which the effect on [gameState]      *)
(* keeps equal to the latest gameState, and writes only objects of the     *)
(* three.js scene.                                                         *)
(*                                                                         *)
(* Colours are kept as the three channel bytes of the hex literal, times   *)
(* ten, so that THREE.Color.lerp by 0.8 and by 0.9 is exact.  Fog          *)
(* distances are exact rationals scaled by FogScale (exact for MaxFrames   *)
(* frames).  Of the sun's intensity, the stars' opacity and the windows'   *)
(* emissive intensity, each a sine or cosine of the clock times a factor,  *)
(* the model keeps whether the value is positive and the factor.  The      *)
(* rain loop moves every particle alike: the model keeps how many times it *)
(* ran, and RainHeight gives a particle's height from the height           *)
(* Math.random() * 800 it was created at.  The camera (controls.update)    *)
(* is not modelled.                                                        *)
(***************************************************************************)
Color(r, g, b) == [r |-> 10 * r, g |-> 10 * g, b |-> 10 * b]

\* COLORS.WATER = '#38bdf8'
WATER == Color(56, 189, 248)

\* THREE.Color.lerp(o, alpha), alpha in tenths
lerpColor(c, o, tenths) ==
    [r |-> c.r + ((o.r - c.r) * tenths) \div 10,
     g |-> c.g + ((o.g - c.g) * tenths) \div 10,
     b |-> c.b + ((o.b - c.b) * tenths) \div 10]

isNight(time) == time < 5000 \/ time > 19000

isDawnDusk(time) ==
    \/ time >= 5000 /\ time < 7000
    \/ time > 17000 /\ time <= 19000

\* targetSky after the weather overrides
targetSky(time, weather) ==
    LET base == IF isNight(time) THEN Color(10, 10, 21)
                ELSE IF isDawnDusk(time) THEN Color(255, 170, 119)
                ELSE WATER
    IN IF weather = "rain" THEN lerpColor(base, Color(51, 51, 68), 8)
       ELSE IF weather = "fog" THEN lerpColor(base, Color(204, 204, 204), 9)
       ELSE base

FogScale == Pow(20, MaxFrames)

wNear(weather) ==
    IF weather = "fog" THEN 50 ELSE IF weather = "rain" THEN 300 ELSE 600

wFar(weather) ==
    IF weather = "fog" THEN 900 ELSE IF weather = "rain" THEN 1500 ELSE 2500

\* one pass of the rain loop over a particle at height y
RainFall(y) == IF y - 8 < 0 THEN 800 ELSE y - 8

\* the height of a particle created at height y0 after n passes
RECURSIVE RainHeight(_, _)
RainHeight(y0, n) == IF n = 0 THEN y0 ELSE RainFall(RainHeight(y0, n - 1))

\* the scene as the mount effect builds it, before the first frame
SetupScene ==
    [background |-> WATER,
     fogColor |-> WATER,
     fogNear |-> 600 * FogScale,
     fogFar |-> 2500 * FogScale,
     sunUp |-> TRUE,
     weatherDim |-> 10,
     starsOut |-> FALSE,
     rainOpacity |-> 0,
     rainPasses |-> 0,
     windowsLit |-> FALSE,
     windowGain |-> 15]

\* one frame: every field animate assigns
animate(sc, time, weather) ==
    [background |-> targetSky(time, weather),
     fogColor |-> targetSky(time, weather),
     fogNear |-> sc.fogNear + (wNear(weather) * FogScale - sc.fogNear) \div 20,
     fogFar |-> sc.fogFar + (wFar(weather) * FogScale - sc.fogFar) \div 20,
     \* Math.max(0, Math.sin(sunAngle)) > 0: between 6 and 18 o'clock
     sunUp |-> time > 6000 /\ time < 18000,
     weatherDim |-> IF weather # "clear" THEN 4 ELSE 10,
     \* isNight && clear, and the sine is positive at every night hour
     starsOut |-> isNight(time) /\ weather = "clear",
     rainOpacity |-> IF weather = "rain" THEN 6 ELSE 0,
     rainPasses |-> IF weather = "rain" THEN sc.rainPasses + 1 ELSE sc.rainPasses,
     \* Math.max(0, -Math.cos(sunAngle)) > 0: between 12 and 24 o'clock
     windowsLit |-> time > 12000,
     windowGain |-> IF weather = "clear" THEN 15 ELSE 20]

(***************************************************************************)
(* GameCanvas.createProceduralBuilding: the group of meshes synthesized    *)
(* for a type, a style variant and the preview flag.  A mesh is kept as    *)
(* the axis-aligned box around its geometry (sx, sy, sz) centred at        *)
(* (x, y, z) in the group's frame, with its material colour, opacity (in   *)
(* tenths), shadow flags and name; role says which statement of the        *)
(* source built it.  Lengths are exact rationals scaled by GeoScale, which *)
(* is twenty times the least common multiple of the step counts of the eco *)
(* style, so that h / steps, halves and tenths are integers.  The box      *)
(* around DodecahedronGeometry(r) reaches 0.934 r along each axis          *)
(* (phi / sqrt 3, rounded down); the four-sided roof cone turned by pi/4   *)
(* reaches 0.707 of its radius.  The n-th call of Math.random() returns    *)
(* Draw(stream, n) thousandths, stream being a cycle of draws.             *)
(***************************************************************************)
GeoScale == 20 * (16 * 3 * 25 * 7)

Tenths(n) == n * (GeoScale \div 10)

Draw(stream, n) == stream[((n - 1) % Len(stream)) + 1]

Mesh(role, name, sx, sy, sz, x, y, z, color, opacity, shadows) ==
    [role |-> role, name |-> name, sx |-> sx, sy |-> sy, sz |-> sz,
     x |-> x, y |-> y, z |-> z, color |-> color, opacity |-> opacity,
     castShadow |-> shadows, receiveShadow |-> shadows]

\* createMat: opacity: isGhost ? 0.6 : 1.0
createMat(isGhost) == IF isGhost THEN 6 ELSE 10

\* (Math.random() - 0.5) * (w - 4)
Scatter(draw, w) == (draw - 500) * ((w - Tenths(40)) \div 1000)

\* the landfill recipe: Math.max(3, w * 0.5) piles, and the fence
landfillParts(w, d, isGhost, stream) ==
    LET piles == MathMax(3, w \div (2 * GeoScale))
        pile(i) ==
            LET r == Tenths(20) + Draw(stream, 3 * i - 2) * 3 * (GeoScale \div 1000)
                across == 2 * ((r * 934) \div 1000)
            IN [Mesh("pile", "", across, across, across,
                     Scatter(Draw(stream, 3 * i - 1), w), r \div 2,
                     Scatter(Draw(stream, 3 * i), d),
                     "#713f12", createMat(isGhost), FALSE)
                  EXCEPT !.castShadow = ~isGhost]
    IN [i \in 1..piles |-> pile(i)]
       \o (IF ~isGhost
           THEN <<Mesh("fence", "", w, Tenths(20), d, 0, Tenths(10), 0, "#444", 10, FALSE)>>
           ELSE <<>>)

\* slip: the leaves' colour differs for the classic style too
leavesColThreeWay(style) ==
    IF style = 2 THEN "#4ade80" ELSE IF style = 1 THEN "#b45309" ELSE "#15803d"

\* leavesCol = style === 2 ? '#4ade80' : '#15803d'
leavesCol(style) == IF style = 2 THEN "#4ade80" ELSE "#15803d"

\* the park recipe: the ground and, when committed, Math.max(1, w * d / 50)
\* trees (trunk, then leaves)
parkParts(w, d, style, isGhost, stream) ==
    LET treeCount == MathMax(1, ((w \div GeoScale) * (d \div GeoScale)) \div 50)
        tx(i) == Scatter(Draw(stream, 2 * i - 1), w)
        tz(i) == Scatter(Draw(stream, 2 * i), d)
        part(k) ==
            LET i == (k + 1) \div 2
            IN IF k % 2 = 1
               THEN Mesh("trunk", "", Tenths(10), Tenths(20), Tenths(10),
                         tx(i), Tenths(5) + Tenths(10), tz(i),
                         "#3f2c20", createMat(isGhost), FALSE)
               ELSE Mesh("leaves", "", Tenths(40), Tenths(40), Tenths(40),
                         tx(i), Tenths(5) + Tenths(35), tz(i),
                         leavesCol(style), createMat(isGhost), FALSE)
    IN <<Mesh("ground", "", w, Tenths(10), d, 0, Tenths(5), 0,
              "#166534", createMat(isGhost), FALSE)>>
       \o (IF ~isGhost THEN [k \in 1..(2 * treeCount) |-> part(k)] ELSE <<>>)

\* road and tool: one box of the type's colour
plainParts(w, d, h, color, isGhost) ==
    <<Mesh("box", "", w - Tenths(2), h, d - Tenths(2), 0, h \div 2, 0,
           color, createMat(isGhost), FALSE)>>

glassColor(category) ==
    IF category = "Office" THEN "#a78bfa"
    ELSE IF category = "Commercial" THEN "#60a5fa"
    ELSE IF category = "Residential" THEN "#86efac"
    ELSE "#fde047"

\* style 0, modern
modernParts(w, d, h, category, isGhost) ==
    IF h > Tenths(150)
    THEN <<Mesh("tower", "window_mesh", w - Tenths(40), h, d - Tenths(40),
                0, h \div 2, 0, glassColor(category), createMat(isGhost), ~isGhost),
           Mesh("frame", "", w - Tenths(40) - Tenths(5), h + Tenths(2),
                d - Tenths(40) - Tenths(5), 0, h \div 2, 0, "#ffffff", 2, FALSE)>>
    ELSE <<Mesh("box", "window_mesh", w - Tenths(20), h, d - Tenths(20),
                0, h \div 2, 0, glassColor(category), createMat(isGhost), ~isGhost)>>

brickColor(category) ==
    IF category = "Residential" THEN "#b45309"
    ELSE IF category = "Commercial" THEN "#78350f"
    ELSE "#57534e"

\* style 1, classic
classicParts(w, d, h, category, isGhost) ==
    LET floors == h \div Tenths(30)
        win(f) == Mesh("window", "window_mesh", w - Tenths(18), Tenths(15),
                       d - Tenths(18), 0, f * Tenths(30), 0,
                       "#ffffaa", createMat(isGhost), FALSE)
        radius == MathMin(w, d) \div 2
        across == 2 * ((radius \div 1000) * 707)
    IN <<Mesh("box", "", w - Tenths(20), h, d - Tenths(20), 0, h \div 2, 0,
              brickColor(category), createMat(isGhost), ~isGhost)>>
       \o (IF ~isGhost
           THEN [f \in 1..(floors - 1) |-> win(f)]
                \o <<Mesh("cornice", "", w - Tenths(15), Tenths(10), d - Tenths(15),
                          0, h - Tenths(5), 0, "#e5e5e5", createMat(isGhost), FALSE),
                     Mesh("plinth", "", w - Tenths(18), Tenths(10), d - Tenths(18),
                          0, Tenths(5), 0, "#e5e5e5", createMat(isGhost), FALSE)>>
                \o (IF category = "Residential"
                    THEN <<Mesh("roof", "", across, Tenths(40), across,
                                0, h + Tenths(20), 0, "#374151", createMat(isGhost), FALSE)>>
                    ELSE <<>>)
           ELSE <<>>)

\* style 2, eco: the stepped body, then the windows of the even steps, the
\* grass on each step below another, and the grass on top
ecoParts(w, d, h, isGhost) ==
    LET steps == MathMax(1, h \div Tenths(60))
        stepH == h \div steps
        stepW(i) == MathMax(Tenths(20), w - Tenths(20) - i * Tenths(15))
        stepD(i) == MathMax(Tenths(20), d - Tenths(20) - i * Tenths(15))
        midY(i) == i * stepH + stepH \div 2
        body(i) == Mesh("step", "", stepW(i), stepH, stepD(i), 0, midY(i), 0,
                        IF i % 2 = 0 THEN "#f9fafb" ELSE "#d97706",
                        createMat(isGhost), ~isGhost)
        win(i) == Mesh("window", "window_mesh", stepW(i) + Tenths(1), (stepH * 6) \div 10,
                       stepD(i) + Tenths(1), 0, midY(i), 0,
                       "#a7f3d0", createMat(isGhost), FALSE)
        grass(i, y) == Mesh("grass", "", stepW(i) - Tenths(2), Tenths(2),
                            stepD(i) - Tenths(2), 0, y, 0,
                            "#22c55e", createMat(isGhost), FALSE)
    IN [k \in 1..steps |-> body(k - 1)]
       \o (IF ~isGhost
           THEN [k \in 1..((steps + 1) \div 2) |-> win(2 * (k - 1))]
                \o [k \in 1..(steps - 1) |-> grass(k - 1, k * stepH)]
                \o <<grass(steps - 1, h)>>
           ELSE <<>>)

\* type.id.includes('landfill'): of the identifiers of BUILDINGS, the four
\* that createZone makes from the prefix util_landfill
includesLandfill(id) ==
    \E size \in 1..4 :
        id = "util_landfill" \o "_" \o ToString(size) \o "x" \o ToString(size)

createProceduralBuilding(type, variant, isGhost, stream) ==
    LET w == type.width * TILE_SIZE * GeoScale
        d == type.depth * TILE_SIZE * GeoScale
        h == type.height100 * TILE_SIZE * (GeoScale \div 100)
        style == variant % 3
        isZone == type.category \in {"Residential", "Commercial", "Office", "Industrial"}
    IN IF type.category = "Utility" /\ includesLandfill(type.id)
       THEN landfillParts(w, d, isGhost, stream)
       ELSE IF type.category = "Parks" THEN parkParts(w, d, style, isGhost, stream)
       ELSE IF ~isZone THEN plainParts(w, d, h, type.color, isGhost)
       ELSE IF style = 0 THEN modernParts(w, d, h, type.category, isGhost)
       ELSE IF style = 1 THEN classicParts(w, d, h, type.category, isGhost)
       ELSE ecoParts(w, d, h, isGhost)

\* nothing synthesized yet
NoForm ==
    [typeId |-> Null, variant |-> 0, isGhost |-> FALSE,
     stream |-> [i \in 1..DrawPeriod |-> 0], parts |-> <<>>]

VARIABLES gameState, buildings, selectedBuildingId, inspectedBuildingId,
          isDemolishMode, currentVariant, ghost, ticks, commits, lastClick,
          lastInput, scene, frames, form

vars == <<gameState, buildings, selectedBuildingId, inspectedBuildingId,
          isDemolishMode, currentVariant, ghost, ticks, commits, lastClick,
          lastInput, scene, frames, form>>

\* what the last handled event carried: the two Math.random() draws of a
\* tick, the catalog entry of a catalog button, the identifier the ray pick
\* of a click returned
Input(kind, id, draw, roll) == [kind |-> kind, id |-> id, draw |-> draw, roll |-> roll]

NoInput == Input("other", Null, -1, -1)

Init ==
    /\ gameState = [funds |-> INITIAL_FUNDS,
                    population |-> INITIAL_POPULATION,
                    jobs |-> 0,
                    happiness |-> 100,
                    level |-> 1,
                    rci |-> [res |-> 100 * RciScale,
                             com |-> 50 * RciScale,
                             ind |-> 50 * RciScale],
                    time |-> 8000,
                    weather |-> "clear"]
    /\ buildings = <<>>
    /\ selectedBuildingId = Null
    /\ inspectedBuildingId = Null
    /\ isDemolishMode = FALSE
    /\ currentVariant = 0
    \* the mount run of the ghost refresh effect hides the new ghost group
    /\ ghost = [visible |-> FALSE, x |-> 0, z |-> 0, typeId |-> Null, color |-> "none"]
    /\ ticks = 0
    /\ commits = 0
    /\ lastClick = "none"
    /\ lastInput = NoInput
    \* animate() has run once at the end of the mount effect
    /\ scene = animate(SetupScene, 8000, "clear")
    /\ frames = 0
    /\ form = NoForm

(***************************************************************************)
(* GameCanvas.updateGhost and the effect that re-runs it.                  *)
(***************************************************************************)
updateGhost(g, bs, sel, x, z) ==
    IF sel # Null /\ HasType(sel)
    THEN [visible |-> TRUE, x |-> x, z |-> z, typeId |-> sel,
          color |-> IF sel = "tool_dezone" THEN "cursor"
                    ELSE IF checkCollision(bs, x, z, TypeOf(sel).width, TypeOf(sel).depth)
                         THEN "invalid" ELSE "valid"]
    ELSE [g EXCEPT !.visible = FALSE]

\* useEffect(..., [currentVariant, updateGhost]): runs after a render in
\* which the variant, the armed tool or the structure list changed.
GhostEffect(g, bs, sel) ==
    IF g.visible THEN updateGhost(g, bs, sel, g.x, g.z) ELSE g

(***************************************************************************)
(* App handlers.                                                           *)
(***************************************************************************)
\* slip: the current variant stamped on every structure of the new list
handlePlaceBuildingRestyles(bs, building, variant) ==
    IF building.typeId = "tool_dezone"
    THEN bs
    ELSE [i \in 1..(Len(bs) + 1) |->
            IF i <= Len(bs)
            THEN [bs[i] EXCEPT !.variant = variant]
            ELSE [id |-> building.id, typeId |-> building.typeId,
                  x |-> building.x, z |-> building.z,
                  rotation |-> building.rotation, variant |-> variant]]

\* slip: the new structure's own identifier stored as its type
handlePlaceBuildingSwapsIds(bs, building, variant) ==
    IF building.typeId = "tool_dezone"
    THEN bs
    ELSE Append(bs, [id |-> building.id, typeId |-> building.id,
                     x |-> building.x, z |-> building.z,
                     rotation |-> building.rotation, variant |-> variant])

handlePlaceBuilding(bs, building, variant) ==
    IF building.typeId = "tool_dezone"
    THEN bs
    ELSE Append(bs, [id |-> building.id, typeId |-> building.typeId,
                     x |-> building.x, z |-> building.z,
                     rotation |-> building.rotation, variant |-> variant])

handleRemoveBuilding(bs, id) == SelectSeq(bs, LAMBDA b : b.id # id)

\* slip: the debit is lost
onUpdateFundsLost(gs, value) == gs

\* onUpdateGameState({ funds: value })
onUpdateFunds(gs, value) == [gs EXCEPT !.funds = value]

(***************************************************************************)
(* The simulation tick (setInterval callback).                             *)
(***************************************************************************)
ResampleDraws == {32, 33}
RollDraws == {49999, 50000, 79999, 80000}

Tick(cap, draws) ==
    /\ ticks < cap
    \* roll is drawn on a resample only
    /\ \E draw \in draws :
          \E roll \in (IF Resamples(draw) THEN RollDraws ELSE {-1}) :
             /\ gameState' = TickState(gameState, draw, roll)
             /\ lastInput' = Input("tick", Null, draw, roll)
    /\ ticks' = ticks + 1
    /\ lastClick' = "none"
    /\ UNCHANGED <<buildings, selectedBuildingId, inspectedBuildingId,
                   isDemolishMode, currentVariant, ghost, commits,
                   scene, frames, form>>

(***************************************************************************)
(* Pointer moves.  A move either misses the terrain (hit = FALSE) or       *)
(* projects to the world point (px, pz).  The river course                 *)
(* sin(x*0.005)*80 + sin(x*0.015)*30 lies in [-110, 110]; a point within   *)
(* 35 of it hides the ghost.  The sines are not computed: a point farther  *)
(* than 145 from z = 0 is never near the river, any other point may be.    *)
(***************************************************************************)
\* Math.round(p / TILE_SIZE) * TILE_SIZE
Snap(p) == ((2 * p + TILE_SIZE) \div (2 * TILE_SIZE)) * TILE_SIZE

NearRiverOutcomes(pz) ==
    IF pz >= 80 + 30 + 35 \/ pz <= -(80 + 30 + 35) THEN {FALSE} ELSE BOOLEAN

handleMouseMove(g, bs, sel, hit, px, pz, nearRiver) ==
    LET limit == MAP_SIZE \div 2
    IN IF ~hit THEN [g EXCEPT !.visible = FALSE]
       ELSE IF px < -limit + 10 \/ px > limit - 10 \/ nearRiver
            THEN [g EXCEPT !.visible = FALSE]
            ELSE updateGhost(g, bs, sel, Snap(px), Snap(pz))

MouseMove(points) ==
    /\ \E hit \in BOOLEAN, p \in points :
         \E nearRiver \in NearRiverOutcomes(p[2]) :
            ghost' = handleMouseMove(ghost, buildings, selectedBuildingId,
                                     hit, p[1], p[2], nearRiver)
    /\ lastClick' = "none"
    /\ lastInput' = NoInput
    /\ UNCHANGED <<gameState, buildings, selectedBuildingId, inspectedBuildingId,
                   isDemolishMode, currentVariant, ticks, commits,
                   scene, frames, form>>


(***************************************************************************)
(* Keyboard (GameCanvas.handleKeyDown) and the UIOverlay buttons.          *)
(***************************************************************************)
KeyC ==
    /\ currentVariant' = (currentVariant + 1) % 3
    /\ ghost' = GhostEffect(ghost, buildings, selectedBuildingId)
    /\ lastClick' = "none"
    /\ lastInput' = Input("key_c", Null, -1, -1)
    /\ UNCHANGED <<gameState, buildings, selectedBuildingId, inspectedBuildingId,
                   isDemolishMode, ticks, commits,
                   scene, frames, form>>

\* slip: handleDeselect without setInspectedBuildingId(null)
EscapeKeepsInspection ==
    /\ selectedBuildingId' = Null
    /\ isDemolishMode' = FALSE
    /\ ghost' = [ghost EXCEPT !.visible = FALSE]
    /\ lastClick' = "none"
    /\ lastInput' = Input("escape", Null, -1, -1)
    /\ UNCHANGED <<gameState, buildings, inspectedBuildingId, currentVariant,
                   ticks, commits,
                   scene, frames, form>>

\* Escape: onDeselect() = App.handleDeselect, then the ghost is hidden
Escape ==
    /\ selectedBuildingId' = Null
    /\ isDemolishMode' = FALSE
    /\ inspectedBuildingId' = Null
    /\ ghost' = [ghost EXCEPT !.visible = FALSE]
    /\ lastClick' = "none"
    /\ lastInput' = Input("escape", Null, -1, -1)
    /\ UNCHANGED <<gameState, buildings, currentVariant, ticks, commits,
                   scene, frames, form>>

\* App.handleSelectBuildingTool(id) on the mode cells <<selected, inspected, demolish>>
handleSelectBuildingTool(m, id) ==
    IF id # Null
    THEN [selected |-> id, inspected |-> Null, demolish |-> FALSE]
    ELSE [m EXCEPT !.selected = id]

\* App.handleDemolishToggle(active)
handleDemolishToggle(m, active) ==
    IF active
    THEN [selected |-> Null, inspected |-> Null, demolish |-> active]
    ELSE [m EXCEPT !.demolish = active]

Mode == [selected |-> selectedBuildingId, inspected |-> inspectedBuildingId,
         demolish |-> isDemolishMode]

SetMode(m) ==
    /\ selectedBuildingId' = m.selected
    /\ inspectedBuildingId' = m.inspected
    /\ isDemolishMode' = m.demolish
    /\ ghost' = GhostEffect(ghost, buildings, m.selected)

\* catalog button: onSelectBuilding(selected === id ? null : id); onDemolishMode(false)
CatalogButton(tools) ==
    /\ \E id \in tools :
          /\ SetMode(handleDemolishToggle(
                        handleSelectBuildingTool(
                           Mode, IF selectedBuildingId = id THEN Null ELSE id),
                        FALSE))
          /\ lastInput' = Input("catalog", id, -1, -1)
    /\ lastClick' = "none"
    /\ UNCHANGED <<gameState, buildings, currentVariant, ticks, commits,
                   scene, frames, form>>

\* slip: the button flips the flag itself (setIsDemolishMode) and calls no
\* handler
DemolishButtonFlagOnly ==
    /\ isDemolishMode' = ~isDemolishMode
    /\ lastClick' = "none"
    /\ lastInput' = Input("demolish", Null, -1, -1)
    /\ UNCHANGED <<gameState, buildings, selectedBuildingId, inspectedBuildingId,
                   currentVariant, ghost, ticks, commits,
                   scene, frames, form>>

\* demolish button: onDemolishMode(!isDemolishMode); onSelectBuilding(null)
DemolishButton ==
    /\ SetMode(handleSelectBuildingTool(
                  handleDemolishToggle(Mode, ~isDemolishMode), Null))
    /\ lastClick' = "none"
    /\ lastInput' = Input("demolish", Null, -1, -1)
    /\ UNCHANGED <<gameState, buildings, currentVariant, ticks, commits,
                   scene, frames, form>>

\* inspector close button: onCloseInspector
CloseInspector ==
    /\ inspectedBuildingId' = Null
    /\ lastClick' = "none"
    /\ lastInput' = NoInput
    /\ UNCHANGED <<gameState, buildings, selectedBuildingId, isDemolishMode,
                   currentVariant, ghost, ticks, commits,
                   scene, frames, form>>

(***************************************************************************)
(* GameCanvas.handleClick.  handleBuildingClick (the ray pick) returns a   *)
(* rendered structure's identifier or nothing; which one is the renderer's *)
(* choice.  Math.random().toString(36).substr(2, 9) is a draw from IdPool. *)
(***************************************************************************)
IdPool == {"b" \o ToString(i) : i \in 1..NumIds}

\* slip: the meshes of removed structures stay in the scene and are picked
PickableStale(bs) == IdPool

Pickable(bs) == {bs[i].id : i \in {j \in DOMAIN bs : HasType(bs[j].typeId)}}

PickOutcomes(bs) == Pickable(bs) \cup {Null}

\* the first branch: demolish mode or the de-zone tool
ClickDemolish ==
    /\ isDemolishMode \/ selectedBuildingId = "tool_dezone"
    /\ \E pick \in PickOutcomes(buildings) :
          /\ lastInput' = Input("pick", pick, -1, -1)
          /\ IF pick # Null
             THEN /\ buildings' = handleRemoveBuilding(buildings, pick)
                  /\ inspectedBuildingId' =
                        IF inspectedBuildingId = pick THEN Null ELSE inspectedBuildingId
                  /\ lastClick' = "removed"
             ELSE /\ UNCHANGED <<buildings, inspectedBuildingId>>
                  /\ lastClick' = "nothing_removed"
    /\ gameState' = StatsEffect(gameState, buildings')
    /\ ghost' = GhostEffect(ghost, buildings', selectedBuildingId)
    /\ UNCHANGED <<selectedBuildingId, isDemolishMode, currentVariant, ticks, commits,
                   scene, frames, form>>

PlacementBranch ==
    /\ ~(isDemolishMode \/ selectedBuildingId = "tool_dezone")
    /\ ghost.visible
    /\ selectedBuildingId # Null

\* slip: the funds test against zero instead of the cost
CanAffordIfPositive(funds, cost) == funds > 0

\* gameState.funds >= bType.cost
CanAfford(funds, cost) == funds >= cost

\* which way the placement branch goes
PlacementOutcome ==
    IF ~HasType(selectedBuildingId) THEN "no_type"
    ELSE LET bType == TypeOf(selectedBuildingId)
         IN IF checkCollision(buildings, ghost.x, ghost.z, bType.width, bType.depth)
            THEN "collision"
            ELSE IF CanAfford(gameState.funds, bType.cost) THEN "placed"
            ELSE "alert"

\* the placement branch, committed: onPlaceBuilding, then onUpdateGameState
ClickPlace(cap, ids) ==
    /\ PlacementBranch
    /\ PlacementOutcome = "placed"
    /\ commits < cap
    /\ \E id \in ids :
          buildings' = handlePlaceBuilding(
                          buildings,
                          [id |-> id, typeId |-> selectedBuildingId,
                           x |-> ghost.x, z |-> ghost.z, rotation |-> 0],
                          currentVariant)
    /\ gameState' = StatsEffect(
                       onUpdateFunds(gameState,
                                     gameState.funds - TypeOf(selectedBuildingId).cost),
                       buildings')
    /\ ghost' = GhostEffect(ghost, buildings', selectedBuildingId)
    /\ commits' = commits + 1
    /\ lastClick' = "placed"
    /\ lastInput' = NoInput
    /\ UNCHANGED <<selectedBuildingId, inspectedBuildingId, isDemolishMode,
                   currentVariant, ticks,
                   scene, frames, form>>

\* the placement branch, not committed: unknown type, collision, or the alert
ClickReject ==
    /\ PlacementBranch
    /\ PlacementOutcome # "placed"
    /\ lastClick' = PlacementOutcome
    /\ lastInput' = NoInput
    /\ UNCHANGED <<gameState, buildings, selectedBuildingId, inspectedBuildingId,
                   isDemolishMode, currentVariant, ghost, ticks, commits,
                   scene, frames, form>>

\* slip: a click on empty space leaves the inspection as it was
ClickInspectKeeps ==
    /\ ~(isDemolishMode \/ selectedBuildingId = "tool_dezone")
    /\ ~(ghost.visible /\ selectedBuildingId # Null)
    /\ \E pick \in PickOutcomes(buildings) :
          /\ inspectedBuildingId' = IF pick # Null THEN pick ELSE inspectedBuildingId
          /\ lastInput' = Input("pick", pick, -1, -1)
    /\ lastClick' = "inspect"
    /\ UNCHANGED <<gameState, buildings, selectedBuildingId, isDemolishMode,
                   currentVariant, ghost, ticks, commits,
                   scene, frames, form>>

\* the else branch: inspection
ClickInspect ==
    /\ ~(isDemolishMode \/ selectedBuildingId = "tool_dezone")
    /\ ~(ghost.visible /\ selectedBuildingId # Null)
    /\ \E pick \in PickOutcomes(buildings) :
          /\ inspectedBuildingId' = pick
          /\ lastInput' = Input("pick", pick, -1, -1)
    /\ lastClick' = "inspect"
    /\ UNCHANGED <<gameState, buildings, selectedBuildingId, isDemolishMode,
                   currentVariant, ghost, ticks, commits,
                   scene, frames, form>>

(***************************************************************************)
(* The render loop and the synthesis of forms.                             *)
(***************************************************************************)
\* slip: the frame advances the simulation clock itself
AnimateAdvancesClock(cap) ==
    /\ frames < cap
    /\ scene' = animate(scene, gameState.time, gameState.weather)
    /\ gameState' = [gameState EXCEPT !.time = NewTime(gameState.time)]
    /\ frames' = frames + 1
    /\ lastClick' = "none"
    /\ lastInput' = NoInput
    /\ UNCHANGED <<buildings, selectedBuildingId, inspectedBuildingId,
                   isDemolishMode, currentVariant, ghost, ticks, commits, form>>

\* one requestAnimationFrame callback
Animate(cap) ==
    /\ frames < cap
    /\ scene' = animate(scene, gameState.time, gameState.weather)
    /\ frames' = frames + 1
    /\ lastClick' = "none"
    /\ lastInput' = NoInput
    /\ UNCHANGED <<gameState, buildings, selectedBuildingId, inspectedBuildingId,
                   isDemolishMode, currentVariant, ghost, ticks, commits, form>>

\* the draws of Math.random(), in thousandths: both ends of [0, 1) and the middle
RandomDraws == {0, 500, 999}

\* one call of createProceduralBuilding: by the building render effect
\* (isGhost false) or by updateGhost (isGhost true).  The function keeps
\* nothing between calls, so a behaviour follows the first call only.
Synthesize ==
    /\ form = NoForm
    /\ \E i \in DOMAIN BUILDINGS, variant \in 0..MaxVariant, isGhost \in BOOLEAN,
          stream \in [1..DrawPeriod -> RandomDraws] :
          form' = [typeId |-> BUILDINGS[i].id, variant |-> variant,
                   isGhost |-> isGhost, stream |-> stream,
                   parts |-> createProceduralBuilding(BUILDINGS[i], variant,
                                                      isGhost, stream)]
    /\ UNCHANGED <<gameState, buildings, selectedBuildingId, inspectedBuildingId,
                   isDemolishMode, currentVariant, ghost, ticks, commits,
                   lastClick, lastInput, scene, frames>>

(***************************************************************************)
(* Specifications.  Each explores the same handlers over its own small set *)
(* of armed tools and pointer points.                                      *)
(*   Spec       placement, demolition, inspection, modes and ticks near    *)
(*              the north-east corner of the map, style variant fixed and  *)
(*              no weather resample;                                       *)
(*   SpecCollision  pointer moves and placement alone, over the same tools *)
(*              and points;                                                *)
(*   SpecSpend  the two landfill sizes whose costs (8000 and 2000) drain   *)
(*              INITIAL_FUNDS to 2000 and to 0;                            *)
(*   SpecRci    the 4x4 zones whose population and jobs drive the demand   *)
(*              targets into both clamps, over several ticks;              *)
(*   SpecStyle  the style-variant key together with placement;             *)
(*   SpecFrame  render frames between weather-changing timer callbacks;    *)
(*   SpecForm   createProceduralBuilding over the whole catalog.           *)
(***************************************************************************)
ToolChoices == {"tool_dezone", "res_1x1", "com_2x2"}

PointerPoints == {<<625, 626>>, <<612, 634>>, <<630, 637>>, <<634, 600>>}

Next ==
    \/ Tick(MaxTicks, {33})
    \/ MouseMove(PointerPoints)
    \/ Escape
    \/ CatalogButton(ToolChoices)
    \/ DemolishButton
    \/ CloseInspector
    \/ ClickDemolish
    \/ ClickPlace(MaxCommits, IdPool)
    \/ ClickReject
    \/ ClickInspect

Spec == Init /\ [][Next]_vars

SpendTools == {"tool_dezone", "util_landfill_4x4", "util_landfill_2x2"}

SpendPoints == {<<600, 600>>, <<630, 640>>}

NextSpend ==
    \/ Tick(MaxTicks, ResampleDraws)
    \/ MouseMove(SpendPoints)
    \/ CatalogButton(SpendTools)
    \/ ClickDemolish
    \/ ClickPlace(MaxSpendCommits, IdPool)
    \/ ClickReject

SpecSpend == Init /\ [][NextSpend]_vars

NextCollision ==
    \/ MouseMove(PointerPoints)
    \/ CatalogButton(ToolChoices)
    \/ ClickPlace(MaxCommits, {"b1"})
    \/ ClickReject

SpecCollision == Init /\ [][NextCollision]_vars

RciTools == {"res_1x1", "res_4x4", "com_4x4"}

RciPoints == {<<600, 600>>, <<560, 600>>, <<600, 560>>}

NextRci ==
    \/ Tick(MaxRciTicks, {33})
    \/ MouseMove(RciPoints)
    \/ CatalogButton(RciTools)
    \/ ClickPlace(MaxRciCommits, {"b1"})
    \/ ClickReject

SpecRci == Init /\ [][NextRci]_vars

StyleTools == {"tool_dezone", "res_1x1"}

StylePoints == {<<617, 622>>, <<630, 620>>}

NextStyle ==
    \/ MouseMove(StylePoints)
    \/ KeyC
    \/ Escape
    \/ CatalogButton(StyleTools)
    \/ ClickDemolish
    \/ ClickPlace(MaxCommits, IdPool)
    \/ ClickReject
    \/ ClickInspect

SpecStyle == Init /\ [][NextStyle]_vars

\* SpecSettle: a city whose population equals its jobs (one res_2x2 against
\* one com_2x2 and two com_1x1: 80 = 56 + 12 + 12) is built while the timer
\* has not fired, and the timer's callbacks are followed from there.
SettleTools == {"com_1x1", "com_2x2", "res_2x2"}

SettlePoints == {<<600, 600>>, <<620, 600>>, <<620, 610>>, <<600, 620>>}

SettledTick ==
    /\ gameState.population > 0
    /\ gameState.jobs = gameState.population
    /\ Tick(MaxSettleTicks, {33})

NextSettle ==
    \/ SettledTick
    \/ MouseMove(SettlePoints)
    \/ CatalogButton(SettleTools)
    \/ ClickPlace(MaxSettleCommits, {"b1"})
    \/ ClickReject

SpecSettle == Init /\ [][NextSettle]_vars

\* SpecClock: the timer alone, over one full day of callbacks, with both
\* outcomes of the resample test and the rolls around 0.5 and 0.8.
NextClock == Tick(MaxClockTicks, ResampleDraws)

SpecClock == Init /\ [][NextClock]_vars

\* SpecFrame: render frames between timer callbacks that resample the
\* weather, around one placed structure.
FrameTools == {"res_1x1"}

FramePoints == {<<600, 600>>}

NextFrame ==
    \/ Tick(MaxFrameTicks, ResampleDraws)
    \/ Animate(MaxFrames)
    \/ MouseMove(FramePoints)
    \/ CatalogButton(FrameTools)
    \/ ClickPlace(MaxCommits, {"b1"})
    \/ ClickReject

SpecFrame == Init /\ [][NextFrame]_vars

\* SpecForm: createProceduralBuilding alone, over every catalog type, the
\* variants 0..MaxVariant, both values of the preview flag and every cycle
\* of DrawPeriod draws.
NextForm == Synthesize

SpecForm == Init /\ [][NextForm]_vars


(***************************************************************************)
(* Vocabulary of the properties.  A footprint is the rectangle             *)
(* center +- width*TILE_SIZE/2 by center +- depth*TILE_SIZE/2, kept with   *)
(* doubled coordinates; two footprints overlap with positive area when the *)
(* intersection of their extents has positive length on both axes.         *)
(***************************************************************************)
Footprint(x, z, w, d) ==
    [x1 |-> 2 * x - w * TILE_SIZE, x2 |-> 2 * x + w * TILE_SIZE,
     z1 |-> 2 * z - d * TILE_SIZE, z2 |-> 2 * z + d * TILE_SIZE]

FootprintOf(b) ==
    Footprint(b.x, b.z, TypeOf(b.typeId).width, TypeOf(b.typeId).depth)

SharedLength(lo1, hi1, lo2, hi2) ==
    LET lo == IF lo1 > lo2 THEN lo1 ELSE lo2
        hi == IF hi1 < hi2 THEN hi1 ELSE hi2
    IN IF hi > lo THEN hi - lo ELSE 0

OverlapArea(f, g) ==
    SharedLength(f.x1, f.x2, g.x1, g.x2) * SharedLength(f.z1, f.z2, g.z1, g.z2)

\* the rectangles meet along a stretch of edge and nowhere else
ShareEdgeOnly(f, g) ==
    /\ OverlapArea(f, g) = 0
    /\ \/ (f.x2 = g.x1 \/ g.x2 = f.x1) /\ SharedLength(f.z1, f.z2, g.z1, g.z2) > 0
       \/ (f.z2 = g.z1 \/ g.z2 = f.z1) /\ SharedLength(f.x1, f.x2, g.x1, g.x2) > 0

InsideGrid(f) ==
    /\ f.x1 >= -MAP_SIZE /\ f.x2 <= MAP_SIZE
    /\ f.z1 >= -MAP_SIZE /\ f.z2 <= MAP_SIZE

\* the step handled a click on the canvas
ClickStep == lastClick' # "none"

\* a catalog structure (not the de-zone tool) is armed and demolish is off
StructureToolArmed ==
    /\ selectedBuildingId \in CatalogIds \ {"tool_dezone"}
    /\ ~isDemolishMode

\* the footprint the armed tool would occupy at the preview's position
Candidate ==
    Footprint(ghost.x, ghost.z,
              TypeOf(selectedBuildingId).width, TypeOf(selectedBuildingId).depth)

CandidateCollides ==
    \/ ~InsideGrid(Candidate)
    \/ \E i \in DOMAIN buildings : OverlapArea(FootprintOf(buildings[i]), Candidate) > 0

(***************************************************************************)
(* C1.  No two placed structures have footprints that overlap with         *)
(* positive area; footprints that only share an edge are allowed.          *)
(***************************************************************************)
C1_NoOverlap ==
    \A i, j \in DOMAIN buildings :
        i # j => OverlapArea(FootprintOf(buildings[i]), FootprintOf(buildings[j])) = 0

\* two structures stand side by side, sharing an edge
C1_Witness ==
    \E i, j \in DOMAIN buildings :
        i # j /\ ShareEdgeOnly(FootprintOf(buildings[i]), FootprintOf(buildings[j]))

(***************************************************************************)
(* C2.  Every placed structure's footprint lies fully within the grid      *)
(* bounds [-MAP_SIZE/2, MAP_SIZE/2] on both axes, MAP_SIZE = 1280.         *)
(***************************************************************************)
C2_InBounds ==
    /\ MAP_SIZE = 1280
    /\ \A i \in DOMAIN buildings : InsideGrid(FootprintOf(buildings[i]))

\* a structure stands flush against the east edge of the grid
C2_Witness ==
    \E i \in DOMAIN buildings : FootprintOf(buildings[i]).x2 = MAP_SIZE

(***************************************************************************)
(* C3.  Funds never become negative.                                       *)
(***************************************************************************)
C3_FundsNonNegative == gameState.funds >= 0

\* a placement has just spent the last of the funds
C3_Witness == lastClick = "placed" /\ gameState.funds = 0

(***************************************************************************)
(* C4.  A rejected commit mutates nothing: a click while a structure tool  *)
(* is armed whose candidate footprint collides (with the bounds or another *)
(* structure), or whose type costs more than the current funds, leaves     *)
(* funds, the structure set, population and jobs as they were.             *)
(***************************************************************************)
C4_RejectedCommitMutatesNothing ==
    [][(/\ ClickStep
        /\ StructureToolArmed
        /\ ghost.visible
        /\ \/ CandidateCollides
           \/ TypeOf(selectedBuildingId).cost > gameState.funds)
       => /\ gameState'.funds = gameState.funds
          /\ buildings' = buildings
          /\ gameState'.population = gameState.population
          /\ gameState'.jobs = gameState.jobs]_vars

\* a click was just refused for lack of funds, on a free in-bounds footprint
C4_Witness ==
    /\ lastClick = "alert"
    /\ StructureToolArmed
    /\ ghost.visible
    /\ ~CandidateCollides
    /\ TypeOf(selectedBuildingId).cost > gameState.funds

(***************************************************************************)
(* C5.  A click while a structure tool is armed, the preview is valid and  *)
(* funds >= cost appends exactly one structure of the armed type at the    *)
(* preview's snapped position and debits exactly that type's cost; no step *)
(* appends a structure without the debit or debits without the structure.  *)
(***************************************************************************)
C5_CommitIsAtomic ==
    [][/\ (/\ ClickStep
           /\ StructureToolArmed
           /\ ghost.visible
           /\ ~CandidateCollides
           /\ gameState.funds >= TypeOf(selectedBuildingId).cost)
          => /\ Len(buildings') = Len(buildings) + 1
             /\ SubSeq(buildings', 1, Len(buildings)) = buildings
             /\ buildings'[Len(buildings')].typeId = selectedBuildingId
             /\ buildings'[Len(buildings')].x = ghost.x
             /\ buildings'[Len(buildings')].z = ghost.z
             /\ ghost.x % TILE_SIZE = 0 /\ ghost.z % TILE_SIZE = 0
             /\ gameState'.funds = gameState.funds - TypeOf(selectedBuildingId).cost
       /\ (Len(buildings') > Len(buildings))
          => /\ Len(buildings') = Len(buildings) + 1
             /\ gameState'.funds =
                   gameState.funds - TypeOf(buildings'[Len(buildings')].typeId).cost
       /\ (gameState'.funds # gameState.funds)
          => Len(buildings') = Len(buildings) + 1]_vars

\* the big landfill was just placed out of the full initial funds
C5_Witness ==
    /\ lastClick = "placed"
    /\ Len(buildings) = 1
    /\ buildings[1].typeId = "util_landfill_4x4"
    /\ gameState.funds = INITIAL_FUNDS - 8000


(***************************************************************************)
(* C6.  checkCollision(x, z, w, d) is true exactly when the candidate      *)
(* rectangle extends outside the grid bounds or overlaps some existing     *)
(* structure's rectangle with positive area: true outside the bounds       *)
(* whatever the structures, false for an in-bounds candidate that only     *)
(* touches existing rectangles along edges.  Two 1x1 footprints one tile   *)
(* apart do not collide; the same center collides.  Checked in every       *)
(* reachable city for the candidate centers of ProbeXs by ProbeZs and all  *)
(* footprints up to 4 by 4, and for the validity the preview is painted    *)
(* with on every pointer move.                                             *)
(***************************************************************************)
ProbeXs == {610, 620, 630}
ProbeZs == {620, 630, 640}
ProbeSizes == 1..4

C6_CollisionIffOutsideOrOverlap ==
    /\ \A x \in ProbeXs, z \in ProbeZs, w \in ProbeSizes, d \in ProbeSizes :
          checkCollision(buildings, x, z, w, d)
             <=> \/ ~InsideGrid(Footprint(x, z, w, d))
                 \/ \E i \in DOMAIN buildings :
                       OverlapArea(FootprintOf(buildings[i]), Footprint(x, z, w, d)) > 0
    /\ \A i \in DOMAIN buildings :
          LET b == buildings[i]
          IN TypeOf(b.typeId).width = 1 /\ TypeOf(b.typeId).depth = 1
                => /\ checkCollision(buildings, b.x, b.z, 1, 1)
                   /\ \/ ~checkCollision(<<b>>, b.x + TILE_SIZE, b.z, 1, 1)
                      \/ ~InsideGrid(Footprint(b.x + TILE_SIZE, b.z, 1, 1))
    \* the preview is painted with the same answer
    /\ (ghost.visible /\ StructureToolArmed)
          => (ghost.color = "invalid" <=> CandidateCollides)

\* a 1x1 structure stands with a free in-bounds tile next to it: the tile
\* next to it does not collide, its own center does
C6_Witness ==
    \E i \in DOMAIN buildings :
        LET b == buildings[i]
        IN /\ TypeOf(b.typeId).width = 1
           /\ checkCollision(buildings, b.x, b.z, 1, 1)
           /\ ~checkCollision(buildings, b.x + TILE_SIZE, b.z, 1, 1)
           /\ ShareEdgeOnly(FootprintOf(b), Footprint(b.x + TILE_SIZE, b.z, 1, 1))

(***************************************************************************)
(* C7.  Population is the sum over placed Residential structures of        *)
(* floor(area*10*(1 + width*0.5)) and jobs the sum over placed Commercial, *)
(* Industrial and Office structures of floor(area*10*(1 + width*0.2)),     *)
(* area = width*depth; Utility, Parks, Road and Tools structures add       *)
(* nothing.  One Residential 1x1 gives population 15 and jobs 0; one       *)
(* Commercial 2x2 gives jobs 56.                                           *)
(***************************************************************************)
\* floor(area*10*(1 + width/2)) and floor(area*10*(1 + width/5))
ResidentsOf(t) == (t.width * t.depth * 10 * (2 + t.width)) \div 2
WorkersOf(t) == (t.width * t.depth * 10 * (5 + t.width)) \div 5

RECURSIVE SumResidents(_)
SumResidents(bs) ==
    IF bs = <<>> THEN 0
    ELSE (IF TypeOf(Head(bs).typeId).category = "Residential"
          THEN ResidentsOf(TypeOf(Head(bs).typeId)) ELSE 0)
         + SumResidents(Tail(bs))

RECURSIVE SumWorkers(_)
SumWorkers(bs) ==
    IF bs = <<>> THEN 0
    ELSE (IF TypeOf(Head(bs).typeId).category \in {"Commercial", "Industrial", "Office"}
          THEN WorkersOf(TypeOf(Head(bs).typeId)) ELSE 0)
         + SumWorkers(Tail(bs))

\* a city of one structure of catalog type t, and its recomputed totals
CityOfOne(t) ==
    <<[id |-> "b1", typeId |-> t.id, x |-> 0, z |-> 0, rotation |-> 0, variant |-> 0]>>

C7_PopulationAndJobsFormula ==
    /\ gameState.population = SumResidents(buildings)
    /\ gameState.jobs = SumWorkers(buildings)
    \* from the empty city: the recompute over one structure of each type
    /\ buildings = <<>>
          => \A i \in DOMAIN BUILDINGS :
                LET t == BUILDINGS[i]
                    after == StatsEffect(gameState, CityOfOne(t))
                IN /\ after.population =
                         IF t.category = "Residential" THEN ResidentsOf(t) ELSE 0
                   /\ after.jobs =
                         IF t.category \in {"Commercial", "Industrial", "Office"}
                         THEN WorkersOf(t) ELSE 0
                   /\ t.category \in {"Utility", "Parks", "Road", "Tools"}
                         => after.population = 0 /\ after.jobs = 0
                   /\ t.id = "res_1x1" => after.population = 15 /\ after.jobs = 0
                   /\ t.id = "com_2x2" => after.jobs = 56

\* a Residential 1x1 and a Commercial 2x2 stand: 15 residents, 56 jobs
C7_Witness ==
    /\ Len(buildings) = 2
    /\ \E i \in DOMAIN buildings : buildings[i].typeId = "res_1x1"
    /\ \E i \in DOMAIN buildings : buildings[i].typeId = "com_2x2"
    /\ gameState.population = 15
    /\ gameState.jobs = 56


(***************************************************************************)
(* C8.  Placing a structure and then removing that same structure returns  *)
(* population and jobs to their values before the placement.  The most     *)
(* recently placed structure is the last of the list; the totals before    *)
(* its placement are the recompute of the list without it.                 *)
(***************************************************************************)
Front(bs) == SubSeq(bs, 1, Len(bs) - 1)

LastWasRemoved ==
    /\ lastClick' = "removed"
    /\ buildings # <<>>
    /\ \A i \in DOMAIN buildings' : buildings'[i].id # buildings[Len(buildings)].id

C8_PlaceThenRemoveRestoresTotals ==
    [][LastWasRemoved
          => /\ gameState'.population = StatsEffect(gameState, Front(buildings)).population
             /\ gameState'.jobs = StatsEffect(gameState, Front(buildings)).jobs]_vars

(***************************************************************************)
(* C9.  Each of the three RCI components (res, com, ind) lies in [0, 100]  *)
(* in every reachable state, starting from (100, 50, 50).                  *)
(***************************************************************************)
C9_RciInRange ==
    \A k \in {"res", "com", "ind"} :
        gameState.rci[k] >= 0 /\ gameState.rci[k] <= 100 * RciScale

\* after the last tick: residential demand has left 100 while jobs exceed
\* population by more than 500 (its target is clamped at 100), and
\* commercial demand has fallen
C9_Witness ==
    /\ ticks = MaxRciTicks
    /\ gameState.population > 0
    /\ gameState.jobs - gameState.population > 500
    /\ gameState.rci.res < 100 * RciScale
    /\ gameState.rci.com < 50 * RciScale

(***************************************************************************)
(* C10.  On each tick the demand targets are: residential = 100 if         *)
(* population is 0, else clamp(0, 100, 50 + (jobs - population)*0.1);      *)
(* commercial = clamp(0, 100, (population*0.5 - jobs*0.2)/2); industrial = *)
(* clamp(0, 100, (population*0.4 - jobs*0.3)/2); and each RCI component    *)
(* becomes current + (target - current)*0.05.                              *)
(***************************************************************************)
Clamp(lo, hi, v) == IF v < lo THEN lo ELSE IF v > hi THEN hi ELSE v

\* the three targets of the claim, scaled by RciScale
DemandTarget(k, population, jobs) ==
    CASE k = "res" ->
           IF population = 0 THEN 100 * RciScale
           ELSE Clamp(0, 100 * RciScale,
                      50 * RciScale + (jobs - population) * (RciScale \div 10))
      [] k = "com" ->
           Clamp(0, 100 * RciScale,
                 (population * 5 - jobs * 2) * (RciScale \div 20))
      [] k = "ind" ->
           Clamp(0, 100 * RciScale,
                 (population * 4 - jobs * 3) * (RciScale \div 20))

TickStep == ticks' = ticks + 1

C10_TickDemand ==
    [][TickStep
          => \A k \in {"res", "com", "ind"} :
                20 * (gameState'.rci[k] - gameState.rci[k]) =
                   DemandTarget(k, gameState.population, gameState.jobs)
                      - gameState.rci[k]]_vars

\* a tick has been taken in a city with residents and jobs, and every
\* component has moved
C10_Witness ==
    /\ ticks > 0
    /\ gameState.population > 0
    /\ gameState.jobs > 0
    /\ gameState.rci.res # 100 * RciScale
    /\ gameState.rci.com # 50 * RciScale
    /\ gameState.rci.ind # 50 * RciScale

(***************************************************************************)
(* C11.  Smoothing toward a target: a component that equals its target is  *)
(* left unchanged by a tick; otherwise the tick leaves its distance to the *)
(* target at exactly 95% of what it was (the distance shrinks by a         *)
(* twentieth) and the component stays on the side of the target it was on. *)
(***************************************************************************)
Dist(a, b) == IF a >= b THEN a - b ELSE b - a

C11_LerpContracts ==
    [][TickStep
          => \A k \in {"res", "com", "ind"} :
                LET cur == gameState.rci[k]
                    new == gameState'.rci[k]
                    target == DemandTarget(k, gameState.population, gameState.jobs)
                IN /\ cur = target => new = cur
                   /\ cur # target
                         => /\ 20 * (Dist(cur, target) - Dist(new, target))
                                  = Dist(cur, target)
                            /\ cur > target => new > target
                            /\ cur < target => new < target]_vars

\* the last event was a tick of an empty city: residential demand sat on
\* its target 100 and is still there, commercial demand has come down
C11_Witness ==
    /\ lastInput.kind = "tick"
    /\ gameState.population = 0
    /\ gameState.rci.res = 100 * RciScale
    /\ gameState.rci.com < 50 * RciScale
    /\ gameState.rci.com > 0

(***************************************************************************)
(* C12.  Residential demand starts at 100; with population = jobs > 0 its  *)
(* target is 50.  After one tick it is 97.5.  After 14 ticks it is about   *)
(* 74.4: the distance to 50 is 50 * 0.95^14 = 24.38, about half of what it *)
(* was, and not within 1% of 50.                                           *)
(***************************************************************************)
C12_SettlesByHalfIn14 ==
    /\ ticks = 0 => gameState.rci.res = 100 * RciScale
    /\ ticks > 0 => DemandTarget("res", gameState.population, gameState.jobs)
                       = 50 * RciScale
    /\ ticks = 1 => gameState.rci.res = 975 * (RciScale \div 10)
    /\ ticks = 14 => /\ gameState.rci.res > 7435 * (RciScale \div 100)
                     /\ gameState.rci.res < 7445 * (RciScale \div 100)

\* fourteen ticks have passed over the city of 80 residents and 80 jobs
C12_Witness ==
    /\ ticks = 14
    /\ gameState.population = 80
    /\ gameState.jobs = 80
    /\ Len(buildings) = 4

\* C12 as stated: after one tick res is 97.5 and after 14 ticks res is
\* within 1% of 50 (taken generously: within one point of 50)
C12_Within1PercentAfter14 ==
    /\ ticks = 1 => gameState.rci.res = 975 * (RciScale \div 10)
    /\ ticks = 14 => Dist(gameState.rci.res, 50 * RciScale) <= RciScale

(***************************************************************************)
(* C13.  The clock is in [0, 24) in every reachable state; a tick adds     *)
(* 0.008 and wraps at 24 rather than stopping there (a tick at 23.995      *)
(* gives 0.003); after 3000 ticks, whose increments sum to 24, the clock   *)
(* is back at the value it started from.  In thousandths of an hour.       *)
(***************************************************************************)
CycleTicks == 24000 \div 8

C13_ClockWraps ==
    /\ [](gameState.time >= 0 /\ gameState.time < 24000)
    /\ [][TickStep
            => gameState'.time = IF gameState.time + 8 >= 24000
                                 THEN gameState.time + 8 - 24000
                                 ELSE gameState.time + 8]_vars
    /\ [](NewTime(23995) = 3)
    /\ [](ticks = CycleTicks => gameState.time = 8000)

\* a full day of ticks has passed and the clock shows 8:00 again
C13_Witness ==
    /\ ticks = CycleTicks
    /\ gameState.time = 8000

(***************************************************************************)
(* C14.  On a tick that resamples the weather (a roll is drawn) the new    *)
(* weather is clear when roll < 0.5, rain when 0.5 <= roll < 0.8 and fog   *)
(* otherwise: the boundaries 0.5 and 0.8 belong to the upper band.  On a   *)
(* tick that does not resample, the weather is unchanged.                  *)
(***************************************************************************)
RollDrawn == lastInput'.roll >= 0

C14_WeatherByRoll ==
    [][TickStep
          => gameState'.weather =
                IF RollDrawn
                THEN IF lastInput'.roll < 50000 THEN "clear"
                     ELSE IF lastInput'.roll < 80000 THEN "rain"
                     ELSE "fog"
                ELSE gameState.weather]_vars

\* the roll came out at exactly 0.5 and it rains
C14_Witness ==
    /\ lastInput.kind = "tick"
    /\ lastInput.roll = 50000
    /\ gameState.weather = "rain"

\* C14 as stated, with the boundaries in the lower band: roll <= 0.5 gives
\* clear, 0.5 < roll <= 0.8 gives rain
C14_InclusiveBoundaries ==
    [][TickStep
          => gameState'.weather =
                IF RollDrawn
                THEN IF lastInput'.roll <= 50000 THEN "clear"
                     ELSE IF lastInput'.roll <= 80000 THEN "rain"
                     ELSE "fog"
                ELSE gameState.weather]_vars

(***************************************************************************)
(* C15.  In every reachable state the interaction mode is one of Idle,     *)
(* Tool-selected and Demolish: demolish mode is never active while a       *)
(* catalog entry or the de-zone tool is armed.                             *)
(***************************************************************************)
ToolArmed == selectedBuildingId # Null

C15_ModesExclusive == ~(isDemolishMode /\ ToolArmed)

\* the demolish button has just turned demolish mode on, and the preview
\* still carries the tool that was armed before
C15_Witness ==
    /\ lastInput.kind = "demolish"
    /\ isDemolishMode
    /\ ~ToolArmed
    /\ ghost.typeId # Null

(***************************************************************************)
(* C16.  Pressing a catalog entry that is not armed arms it (Tool-selected *)
(* mode, demolish off); pressing the armed entry again disarms it (Idle).  *)
(* Pressing demolish while it is off gives Demolish mode with no tool      *)
(* armed; pressing it while it is on turns it off (Idle).  Escape gives    *)
(* Idle from any mode: no tool armed, demolish off, no inspection.         *)
(***************************************************************************)
Idle(sel, dem) == sel = Null /\ ~dem

C16_ModeTransitions ==
    [][/\ lastInput'.kind = "catalog"
            => IF selectedBuildingId # lastInput'.id
               THEN selectedBuildingId' = lastInput'.id /\ ~isDemolishMode'
               ELSE Idle(selectedBuildingId', isDemolishMode')
       /\ lastInput'.kind = "demolish"
            => IF ~isDemolishMode
               THEN isDemolishMode' /\ selectedBuildingId' = Null
               ELSE Idle(selectedBuildingId', isDemolishMode')
       /\ lastInput'.kind = "escape"
            => /\ Idle(selectedBuildingId', isDemolishMode')
               /\ inspectedBuildingId' = Null]_vars

\* a catalog entry has just been armed out of demolish mode or over another
\* tool (the preview still carries the earlier tool) in a city with a
\* structure
C16_Witness ==
    /\ lastInput.kind = "catalog"
    /\ selectedBuildingId = lastInput.id
    /\ ~isDemolishMode
    /\ buildings # <<>>

\* C16 as stated: a catalog press always arms the entry, a demolish press
\* always gives Demolish mode, Escape always gives Idle
C16_AlwaysArms ==
    [][/\ lastInput'.kind = "catalog"
            => selectedBuildingId' = lastInput'.id /\ ~isDemolishMode'
       /\ lastInput'.kind = "demolish"
            => isDemolishMode' /\ selectedBuildingId' = Null
       /\ lastInput'.kind = "escape"
            => /\ Idle(selectedBuildingId', isDemolishMode')
               /\ inspectedBuildingId' = Null]_vars

(***************************************************************************)
(* C17.  Style variants are not retroactive: a change of the active        *)
(* variant changes no structure; a placement appends one structure that    *)
(* carries the variant active at that moment and leaves the others as they *)
(* were; any other change of the list only deletes structures, so every    *)
(* structure keeps its variant for as long as it stands.                   *)
(***************************************************************************)
\* s is t with some elements deleted
RECURSIVE IsSubSeq(_, _)
IsSubSeq(s, t) ==
    IF s = <<>> THEN TRUE
    ELSE IF t = <<>> THEN FALSE
    ELSE IF Head(s) = Head(t) THEN IsSubSeq(Tail(s), Tail(t))
    ELSE IsSubSeq(s, Tail(t))

C17_VariantNotRetroactive ==
    [][/\ currentVariant' # currentVariant => buildings' = buildings
       /\ Len(buildings') > Len(buildings)
            => /\ Len(buildings') = Len(buildings) + 1
               /\ Front(buildings') = buildings
               /\ buildings'[Len(buildings')].variant = currentVariant
       /\ Len(buildings') <= Len(buildings) => IsSubSeq(buildings', buildings)]_vars

\* two structures of different variants stand while a third variant is
\* the active one
C17_Witness ==
    /\ Len(buildings) = 2
    /\ buildings[1].variant # buildings[2].variant
    /\ currentVariant # buildings[1].variant
    /\ currentVariant # buildings[2].variant

(***************************************************************************)
(* C18.  A click in demolish mode or with the de-zone tool armed removes   *)
(* exactly one structure, the one whose identifier the pick returned, and  *)
(* changes nothing when the pick returned none; funds, the interaction     *)
(* mode and every other structure are unchanged and nothing is placed.     *)
(***************************************************************************)
RemoveAt(bs, i) == SubSeq(bs, 1, i - 1) \o SubSeq(bs, i + 1, Len(bs))

RemovalArmed == isDemolishMode \/ selectedBuildingId = "tool_dezone"

C18_RemovesExactlyThePicked ==
    [][(ClickStep /\ RemovalArmed)
          => /\ lastInput'.kind = "pick"
             /\ IF lastInput'.id = Null
                THEN buildings' = buildings
                ELSE \E i \in DOMAIN buildings :
                        /\ buildings[i].id = lastInput'.id
                        /\ buildings' = RemoveAt(buildings, i)
             /\ gameState'.funds = gameState.funds
             /\ selectedBuildingId' = selectedBuildingId
             /\ isDemolishMode' = isDemolishMode
             /\ inspectedBuildingId' = inspectedBuildingId]_vars

(***************************************************************************)
(* C19.  A click in Idle mode (no tool armed, demolish off) makes the      *)
(* picked structure the inspected one, or clears the inspection when the   *)
(* pick returns none; the structure list, funds, population and jobs are   *)
(* unchanged.                                                              *)
(***************************************************************************)
C19_IdleClickInspects ==
    [][(ClickStep /\ Idle(selectedBuildingId, isDemolishMode))
          => /\ lastInput'.kind = "pick"
             /\ inspectedBuildingId' = lastInput'.id
             /\ buildings' = buildings
             /\ gameState'.funds = gameState.funds
             /\ gameState'.population = gameState.population
             /\ gameState'.jobs = gameState.jobs]_vars

\* an Idle click on empty space has cleared the inspection in a city of
\* two structures
C19_Witness ==
    /\ lastClick = "inspect"
    /\ Idle(selectedBuildingId, isDemolishMode)
    /\ lastInput.id = Null
    /\ inspectedBuildingId = Null
    /\ Len(buildings) = 2

(***************************************************************************)
(* C20.  A tick computes its demand targets from the population and jobs   *)
(* of the structures standing at that moment: every step that changes the  *)
(* structure list leaves population and jobs equal to the recompute of the *)
(* new list, and a tick changes neither population, jobs nor funds.        *)
(***************************************************************************)
C20_TickReadsFreshTotals ==
    /\ [][buildings' # buildings
            => /\ gameState'.population = SumResidents(buildings')
               /\ gameState'.jobs = SumWorkers(buildings')]_vars
    /\ [][TickStep
            => /\ \A k \in {"res", "com", "ind"} :
                     20 * (gameState'.rci[k] - gameState.rci[k]) =
                        DemandTarget(k, SumResidents(buildings), SumWorkers(buildings))
                           - gameState.rci[k]
               /\ gameState'.population = gameState.population
               /\ gameState'.jobs = gameState.jobs
               /\ gameState'.funds = gameState.funds]_vars

\* a tick has just run over the one structure left after two placements
\* and a demolition, with residents to count
C20_Witness ==
    /\ lastInput.kind = "tick"
    /\ commits = 2
    /\ Len(buildings) = 1
    /\ gameState.population > 0
    /\ gameState.rci.res < 100 * RciScale

(***************************************************************************)
(* C21.  All placed structures have pairwise distinct identifiers, so that *)
(* removing by identifier removes at most one structure.                   *)
(***************************************************************************)
C21_DistinctIds ==
    \A i, j \in DOMAIN buildings : i # j => buildings[i].id # buildings[j].id

(***************************************************************************)
(* C27.  Whenever a tool (the de-zone tool included) is armed or demolish  *)
(* mode is active, no structure is inspected.                              *)
(***************************************************************************)
C27_InspectionOnlyIdle ==
    (ToolArmed \/ isDemolishMode) => inspectedBuildingId = Null

(***************************************************************************)
(* C28.  The inspected identifier is either none or the identifier of a    *)
(* structure of the current list; in particular a demolition that removes  *)
(* the inspected structure leaves nothing inspected.                       *)
(***************************************************************************)
C28_InspectedExists ==
    \/ inspectedBuildingId = Null
    \/ \E i \in DOMAIN buildings : buildings[i].id = inspectedBuildingId

\* one of two placed structures was demolished, the other is inspected
C28_Witness ==
    /\ inspectedBuildingId # Null
    /\ commits = 2
    /\ Len(buildings) = 1

(***************************************************************************)
(* C29.  INITIAL_FUNDS - funds is the sum of the costs of the commits that *)
(* added a structure: a step that appends a structure lowers the funds by  *)
(* that structure's cost and every other step leaves the funds alone, so   *)
(* the funds never increase; while no structure has been removed the       *)
(* amount spent equals the cost of the structures standing, and it is      *)
(* never less than that cost.                                              *)
(***************************************************************************)
RECURSIVE SumCosts(_)
SumCosts(bs) ==
    IF bs = <<>> THEN 0
    ELSE TypeOf(Head(bs).typeId).cost + SumCosts(Tail(bs))

C29_FundsConservation ==
    /\ [][gameState'.funds =
             gameState.funds
             - (IF commits' = commits + 1
                THEN TypeOf(buildings'[Len(buildings')].typeId).cost
                ELSE 0)]_vars
    /\ [][gameState'.funds <= gameState.funds]_vars
    /\ [](INITIAL_FUNDS - gameState.funds >= SumCosts(buildings))
    /\ [](commits = Len(buildings)
             => INITIAL_FUNDS - gameState.funds = SumCosts(buildings))

\* two landfills were paid for, one of them has been demolished since, and
\* the timer has fired
C29_Witness ==
    /\ commits = 2
    /\ Len(buildings) = 1
    /\ ticks > 0
    /\ INITIAL_FUNDS - gameState.funds > SumCosts(buildings)

(***************************************************************************)
(* C30.  Every placed structure's typeId resolves to an entry of BUILDINGS *)
(* and is never the de-zone tool, so the recompute, the collision test and *)
(* the renderer never skip a structure for an unknown type.                *)
(***************************************************************************)
C30_TypesResolve ==
    \A i \in DOMAIN buildings :
        /\ HasType(buildings[i].typeId)
        /\ buildings[i].typeId # "tool_dezone"

\* a click with the de-zone tool armed and its cursor shown over empty
\* ground, next to two placed structures
C30_Witness ==
    /\ selectedBuildingId = "tool_dezone"
    /\ ghost.visible
    /\ lastClick = "nothing_removed"
    /\ Len(buildings) = 2

(***************************************************************************)
(* Vocabulary of the frame and form properties.                            *)
(***************************************************************************)
\* the step ran one render frame
FrameStep == frames' = frames + 1

Abs(n) == IF n < 0 THEN -n ELSE n

MaxOf(S) == IF S = {} THEN 0 ELSE CHOOSE m \in S : \A k \in S : k <= m

\* overall height and horizontal half-extents of a group of meshes
Silhouette(parts) ==
    [top |-> MaxOf({2 * parts[k].y + parts[k].sy : k \in DOMAIN parts}),
     halfX |-> MaxOf({2 * Abs(parts[k].x) + parts[k].sx : k \in DOMAIN parts}),
     halfZ |-> MaxOf({2 * Abs(parts[k].z) + parts[k].sz : k \in DOMAIN parts})]

\* the sub-elements placed with Math.random()
Scattered(part) == part.role \in {"pile", "trunk", "leaves"}

\* a group with what Math.random() decides (the scatter positions and the
\* piles' radius) left out
Recipe(parts) ==
    [k \in DOMAIN parts |->
        IF parts[k].role = "pile"
        THEN [parts[k] EXCEPT !.x = 0, !.z = 0, !.y = 0, !.sx = 0, !.sy = 0, !.sz = 0]
        ELSE IF Scattered(parts[k]) THEN [parts[k] EXCEPT !.x = 0, !.z = 0]
        ELSE parts[k]]

\* a group with the colour of the trees' leaves left out
Leafless(parts) ==
    [k \in DOMAIN parts |->
        IF parts[k].role = "leaves" THEN [parts[k] EXCEPT !.color = ""] ELSE parts[k]]

Synthesized == form.typeId # Null

NonZoned == TypeOf(form.typeId).category \in {"Utility", "Parks", "Road", "Tools"}

(***************************************************************************)
(* C22.  A render frame never changes the simulation state (funds,         *)
(* population, jobs, RCI, clock, weather) or the structure set, nor the    *)
(* mode, the variant or the preview: it changes only the scene's animation *)
(* state.                                                                  *)
(***************************************************************************)
C22_FrameKeepsSimulation ==
    [][FrameStep
          => /\ gameState' = gameState
             /\ buildings' = buildings
             /\ UNCHANGED <<selectedBuildingId, inspectedBuildingId, isDemolishMode,
                            currentVariant, ghost, ticks, commits, form>>]_vars

\* frames have run in the rain beside a placed structure: particles have
\* fallen and the fog has closed in
C22_Witness ==
    /\ frames > 0
    /\ buildings # <<>>
    /\ gameState.weather = "rain"
    /\ scene.rainPasses > 0
    /\ scene.rainOpacity = 6
    /\ scene.fogNear < 600 * FogScale

(***************************************************************************)
(* C23.  The displayed sky colour is smoothed toward the instantaneous     *)
(* target and never set directly to it: a frame that starts with the       *)
(* displayed colour away from the target (the clock crossed a band         *)
(* boundary or the weather changed) does not end with the displayed colour *)
(* equal to the target.                                                    *)
(***************************************************************************)
C23_SkySmoothed ==
    [][(/\ FrameStep
        /\ scene.background # targetSky(gameState.time, gameState.weather))
          => /\ scene'.background # targetSky(gameState.time, gameState.weather)
             /\ scene'.fogColor # targetSky(gameState.time, gameState.weather)]_vars

(***************************************************************************)
(* C24.  For every non-zoned catalog type (landfill, park, road, tool)     *)
(* the synthesized form does not depend on the style variant: for the same *)
(* preview flag, every variant and every cycle of draws gives the same     *)
(* recipe, proportions and material colours, the random scatter apart.     *)
(* As amended: ... except that the leaves of a committed park's trees are  *)
(* '#4ade80' under the eco style (variant % 3 = 2) and '#15803d' under the *)
(* other two.                                                              *)
(***************************************************************************)
C24_VariantIndependent ==
    (Synthesized /\ NonZoned)
       => \A variant \in 0..MaxVariant, stream \in [1..DrawPeriod -> RandomDraws] :
             Recipe(createProceduralBuilding(TypeOf(form.typeId), variant,
                                             form.isGhost, stream))
                = Recipe(form.parts)

C24_VariantIndependentButLeaves ==
    (Synthesized /\ NonZoned)
       => /\ \A variant \in 0..MaxVariant :
                Leafless(Recipe(createProceduralBuilding(TypeOf(form.typeId), variant,
                                                         form.isGhost, form.stream)))
                   = Leafless(Recipe(form.parts))
          /\ \A stream \in [1..DrawPeriod -> RandomDraws] :
                Recipe(createProceduralBuilding(TypeOf(form.typeId), form.variant,
                                                form.isGhost, stream))
                   = Recipe(form.parts)
          /\ \A k \in DOMAIN form.parts :
                form.parts[k].role = "leaves"
                   => form.parts[k].color =
                         IF form.variant % 3 = 2 THEN "#4ade80" ELSE "#15803d"

\* a committed park synthesized under the eco style, with its trees
C24_Witness ==
    /\ Synthesized
    /\ TypeOf(form.typeId).category = "Parks"
    /\ ~form.isGhost
    /\ form.variant % 3 = 2
    /\ \E k \in DOMAIN form.parts : form.parts[k].role = "leaves"

(***************************************************************************)
(* C25.  For every catalog type and variant the preview form has the same  *)
(* silhouette as the committed form: the same overall height and the same  *)
(* horizontal extent.                                                      *)
(***************************************************************************)
C25_PreviewKeepsSilhouette ==
    Synthesized
       => Silhouette(createProceduralBuilding(TypeOf(form.typeId), form.variant,
                                              ~form.isGhost, form.stream))
             = Silhouette(form.parts)

(***************************************************************************)
(* C26.  For every landfill and park type and every draw, each randomly    *)
(* placed sub-element (pile, tree) stays within the footprint: within      *)
(* w/2 and d/2 of the structure's centre on either side.                   *)
(***************************************************************************)
C26_ScatterInsideFootprint ==
    Synthesized
       => \A k \in DOMAIN form.parts :
             Scattered(form.parts[k])
                => /\ 2 * Abs(form.parts[k].x) + form.parts[k].sx
                         <= TypeOf(form.typeId).width * TILE_SIZE * GeoScale
                   /\ 2 * Abs(form.parts[k].z) + form.parts[k].sz
                         <= TypeOf(form.typeId).depth * TILE_SIZE * GeoScale

=============================================================================
